---------------------------- MODULE Spec2Model ----------------------------
(***************************************************************************)
(* PromptPix backend relay (src/backend/api/index.js).                     *)
(*                                                                         *)
(* index.js holds two scripts of the same three POST handlers: the         *)
(* serverless script (lines 1-216, lazy singletons, result read as         *)
(* response.text / response.candidates) and the Vercel script (lines       *)
(* 219-429, client built at load, result read as response.response.text()  *)
(* / response.response.candidates).  `variant` says which one is deployed. *)
(*                                                                         *)
(* A JavaScript string is a sequence of tokens; a token is one whitespace  *)
(* character or a chunk of other characters.  "" is <<>>.  A JavaScript    *)
(* object is a record; a missing property is a name outside its DOMAIN.    *)
(* Error messages and the `type` tag are TLA+ strings.                     *)
(***************************************************************************)
EXTENDS Naturals, Sequences, FiniteSets, Bags, TLC

VARIABLES
    variant,              \* "serverless" | "vercel": the deployed script
    sdkShape,             \* shape of what generateContent resolves to
    GEMINI_API_KEY,       \* process.env.GEMINI_API_KEY is set
    genAIInstance,        \* serverless: let genAIInstance; vercel: const genAI
    geminiModelInstance,  \* serverless: let geminiModelInstance; vercel: const geminiModel
    t2iModelInstance,     \* serverless: let t2iModelInstance
    built,                \* how often each accessor has run its constructor
    inflight,             \* slot -> handler invocation suspended at an await
    completed,            \* the most recently finished exchange (<<>> or <<x>>)
    ui,                   \* App.jsx: the useState values of the mounted App
    pending               \* App.jsx: the bag of handlers suspended at an await

vars == <<variant, sdkShape, GEMINI_API_KEY, genAIInstance, geminiModelInstance,
          t2iModelInstance, built, inflight, completed, ui, pending>>

backendVars == <<variant, sdkShape, GEMINI_API_KEY, genAIInstance,
                 geminiModelInstance, t2iModelInstance, built, inflight, completed>>
clientVars == <<ui, pending>>

---------------------------------------------------------------------------
(* Bounds *)

MaxInFlight == 1
MaxParts == 2
MaxTextLen == 2
MaxConcurrent == 2
MaxPending == 2

Slots == 1..MaxInFlight

SeqsUpTo(S, n) == UNION {[1..k -> S] : k \in 0..n}

---------------------------------------------------------------------------
(* Program constants *)

MULTIMODAL_MODEL == "gemini-2.5-flash"
T2I_MODEL == "gemini-2.5-flash-image-preview"

Null == "null"
GenAIClient == "GoogleGenerativeAI"

KeyNotSetMessage == "GEMINI_API_KEY environment variable is not set or accessible."
InvalidRequestMessage == "Invalid request type or missing parameters."
FallbackMessage == "AI service failed to process the request."
ApprovedPromptRequired == "Approved prompt is required."
ImageAnalysisRequired == "Image analysis description is required."
NoImageData == "No image data returned from Gemini."
NoImageReturned == "No image returned from Gemini."
ModelDidNotReturnText ==
    "Model did not return text. Content may have been blocked or the generation failed."

TypeErrorReading(prop) ==
    CASE prop = "trim"       -> "Cannot read properties of undefined (reading 'trim')"
      [] prop = "text"       -> "Cannot read properties of undefined (reading 'text')"
      [] prop = "candidates" -> "Cannot read properties of undefined (reading 'candidates')"
      [] prop = "0"          -> "Cannot read properties of undefined (reading '0')"
      [] prop = "content"    -> "Cannot read properties of undefined (reading 'content')"
      [] prop = "parts"      -> "Cannot read properties of undefined (reading 'parts')"

ServerlessEnhanceInstruction ==
    <<"You are a world-class creative director specializing in high-fidelity generative art prompts. Take the user's brief text and expand it into a detailed, descriptive prompt suitable for a modern image generation AI, including style, lighting, composition, and mood. Keep it under 100 words. The output must be ONLY the descriptive scene.">>
ServerlessAnalyzeInstruction ==
    <<"Analyze this image. Describe its primary subject, style, color palette, and mood. Generate a high-quality, creative prompt of 50-70 words suitable for an image generation model to create similar variations. Output ONLY the generated prompt text.">>
VercelAnalyzeInstruction ==
    <<"Describe this image in a single, vivid, and detailed sentence suitable for a 'style variation' image generator prompt. Output only the sentence.">>
ServerlessVariationTemplate ==
    <<"Create a stylized, artistic variation of the following image description, rendered as a cinematic digital painting with neon lighting and deep shadow:", " ">>
VercelVariationTemplate ==
    <<"Create a stylized, artistic variation of the following image description, for a futuristic cyberpunk art piece:", " ">>

ENHANCE_PATH == "/api/enhance-and-analyze"
IMAGE_PATH == "/api/generate-image"
VARIATION_PATH == "/api/generate-variation"
HEALTH_PATH == "/api/health-check"

---------------------------------------------------------------------------
(* JavaScript strings *)

Whitespace == {" ", "\n"}

RECURSIVE trimStart(_)
trimStart(s) ==
    IF s # <<>> /\ Head(s) \in Whitespace THEN trimStart(Tail(s)) ELSE s

RECURSIVE trimEnd(_)
trimEnd(s) ==
    IF s # <<>> /\ s[Len(s)] \in Whitespace
    THEN trimEnd(SubSeq(s, 1, Len(s) - 1))
    ELSE s

trim(s) == trimEnd(trimStart(s))

startsWith(s, prefix) ==
    Len(s) >= Len(prefix) /\ SubSeq(s, 1, Len(prefix)) = prefix

\* Truthiness of the string property f of object o (undefined and "" are falsy).
Truthy(o, f) == f \in DOMAIN o /\ o[f] # <<>>

TypeIs(o, t) == "type" \in DOMAIN o /\ o.type = t


---------------------------------------------------------------------------
(* Inputs: request bodies and what the external model answers *)

EmptyObject == [f \in {} |-> <<>>]

PNG == <<"image/", "png">>
PDF == <<"application/", "pdf">>
Base64Images == {<<>>, <<"QUJD">>}
MimeTypes == {<<>>, PNG}
TextPrompts == {<<>>, <<"a castle">>}
Analyses == {<<>>, <<" ", "A castle at dusk.">>}

\* Every object with the property f from V, or without it.
Optional(f, V) == {EmptyObject} \cup {f :> v : v \in V}

EnhanceAnalyzeBodies ==
    {("type" :> "enhance") @@ t : t \in Optional("textPrompt", TextPrompts)}
      \cup {("type" :> "analyze") @@ b @@ m :
              b \in Optional("base64Image", Base64Images),
              m \in Optional("mimeType", MimeTypes)}
      \cup { [type |-> "enhance", base64Image |-> <<"QUJD">>, mimeType |-> PNG],
             [type |-> "analyze", textPrompt |-> <<"a castle">>],
             [type |-> "other", textPrompt |-> <<"a castle">>],
             [textPrompt |-> <<"a castle">>] }

GenerateImageBodies == Optional("approvedPrompt", {<<>>, <<"A castle at dusk.">>})

GenerateVariationBodies == Optional("imageAnalysis", Analyses)

TextTokens == {" ", "A castle at dusk."}
Texts == SeqsUpTo(TextTokens, MaxTextLen)

TextPart == [text |-> <<"caption">>]
InlinePart(m, d) == [inlineData |-> [mimeType |-> m, data |-> d]]
Parts ==
    {TextPart, InlinePart(PNG, <<"QUJD">>), InlinePart(PNG, <<"REVG">>),
     InlinePart(PNG, <<>>), InlinePart(PDF, <<"JVBE">>)}

CandidateLists ==
    {<<>>, <<[finishReason |-> "SAFETY"]>>}
      \cup {<<[content |-> [parts |-> ps]]>> : ps \in SeqsUpTo(Parts, MaxParts)}

BlockedMessage == "Text not available. Response was blocked due to SAFETY"
ThrownMessages == {"", "fetch failed"}

Thrown == {[threw |-> TRUE, message |-> m] : m \in ThrownMessages}

\* What a text call resolves to: the text, or a blocked answer without text.
\* "flat": the text is the property result.text (absent when blocked);
\* "wrapped": it is the method result.response.text(), which throws when blocked.
TextResults(shape) ==
    IF shape = "flat"
    THEN {[text |-> t] : t \in Texts} \cup {[promptFeedback |-> "SAFETY"]}
    ELSE {[response |-> [text |-> [returns |-> t]]] : t \in Texts}
           \cup {[response |-> [text |-> [throws |-> BlockedMessage]]]}

\* What an image call resolves to: candidates, or a blocked answer without any.
ImageResults(shape) ==
    IF shape = "flat"
    THEN {[candidates |-> c] : c \in CandidateLists}
           \cup {[promptFeedback |-> "SAFETY"]}
    ELSE {[response |-> [candidates |-> c]] : c \in CandidateLists}
           \cup {[response |-> [promptFeedback |-> "SAFETY"]]}

Resolved(results) == {[threw |-> FALSE, result |-> r] : r \in results}

\* The provider rejects every call made without a credential.
Outcomes(results) ==
    IF GEMINI_API_KEY THEN Thrown \cup Resolved(results) ELSE Thrown

---------------------------------------------------------------------------
(* One request/response exchange *)

Idle == [pc |-> "idle"]

NewExchange(method, path, body) ==
    [ pc        |-> "running",
      method    |-> method,
      path      |-> path,
      body      |-> body,
      obtained  |-> FALSE,    \* a model handle was obtained for this request
      calls     |-> <<>>,     \* generateContent calls made, in order
      outcome   |-> <<>>,     \* what the awaited call settled with (<<>> or <<o>>)
      thrown    |-> <<>>,     \* messages of the errors raised, in order
      local     |-> EmptyObject, \* the handler's constants held across an await
      responses |-> <<>> ]    \* responses written to res, in order

Respond(x, status, body) ==
    [x EXCEPT !.responses = Append(@, [status |-> status, body |-> body])]

Return(x) == [x EXCEPT !.pc = "done"]

Throw(x, message) == [x EXCEPT !.thrown = Append(@, message)]

Obtain(x) == [x EXCEPT !.obtained = TRUE]

Keep(x, locals) == [x EXCEPT !.local = locals]

\* Mutant: the request is sent again after the first call.
CallWithRetry(x, model, request) ==
    [x EXCEPT !.calls = @ \o << [model |-> model, request |-> request],
                                [model |-> model, request |-> request] >>,
              !.pc = "awaitGenerate"]

\* model.generateContent(request), then the handler waits for it.
Call(x, model, request) ==
    [x EXCEPT !.calls = Append(@, [model |-> model, request |-> request]),
              !.pc = "awaitGenerate"]

Settle(x, o) == [x EXCEPT !.outcome = <<o>>, !.pc = "running"]


---------------------------------------------------------------------------
(* Serverless script: lazy singletons (index.js 27-59) *)

Module ==
    [ genAIInstance       |-> genAIInstance,
      geminiModelInstance |-> geminiModelInstance,
      t2iModelInstance    |-> t2iModelInstance,
      built               |-> built ]

\* Each accessor yields [threw, message] or [threw, value], with the module
\* state it leaves behind in mod.  mod.built counts the runs of
\* `new GoogleGenerativeAI` (line 37) and of the two `models.get` (lines 45
\* and 56): the handles themselves carry no identity.
getGenAI(m) ==
    IF ~GEMINI_API_KEY
    THEN [threw |-> TRUE, message |-> KeyNotSetMessage, mod |-> m]
    ELSE LET m2 == IF m.genAIInstance = Null
                   THEN [m EXCEPT !.genAIInstance = GenAIClient,
                                  !.built.genAI = @ + 1]
                   ELSE m
         IN  [threw |-> FALSE, value |-> m2.genAIInstance, mod |-> m2]

getGeminiModel(m) ==
    IF m.geminiModelInstance = Null
    THEN LET g == getGenAI(m)
         IN  IF g.threw
             THEN g
             ELSE [threw |-> FALSE, value |-> MULTIMODAL_MODEL,
                   mod |-> [g.mod EXCEPT !.geminiModelInstance = MULTIMODAL_MODEL,
                                         !.built.gemini = @ + 1]]
    ELSE [threw |-> FALSE, value |-> m.geminiModelInstance, mod |-> m]

\* Mutant: the image model is fetched on every call.
getT2IModelEveryCall(m) ==
    LET g == getGenAI(m)
    IN  IF g.threw
        THEN g
        ELSE [threw |-> FALSE, value |-> T2I_MODEL,
              mod |-> [g.mod EXCEPT !.t2iModelInstance = T2I_MODEL,
                                    !.built.t2i = @ + 1]]

getT2IModel(m) ==
    IF m.t2iModelInstance = Null
    THEN LET g == getGenAI(m)
         IN  IF g.threw
             THEN g
             ELSE [threw |-> FALSE, value |-> T2I_MODEL,
                   mod |-> [g.mod EXCEPT !.t2iModelInstance = T2I_MODEL,
                                         !.built.t2i = @ + 1]]
    ELSE [threw |-> FALSE, value |-> m.t2iModelInstance, mod |-> m]

---------------------------------------------------------------------------
(* Pieces shared by the two scripts *)

\* Mutant: the data is sent as a data URI.
fileToGenerativePartDataUri(base64Data, mimeType) ==
    [inlineData |-> [data |-> <<"data:">> \o mimeType \o <<";base64,">> \o base64Data,
                     mimeType |-> mimeType]]

fileToGenerativePart(base64Data, mimeType) ==
    [inlineData |-> [data |-> base64Data, mimeType |-> mimeType]]

\* Mutant: error.message without the fallback.
enhanceCatchNoFallback(x, message) == Return(Respond(x, 500, [error |-> message]))

\* catch (error) of enhance-and-analyze: error.message || fallback.
enhanceCatch(x, message) ==
    Return(Respond(x, 500,
        [error |-> IF message # "" THEN message ELSE FallbackMessage]))

\* catch (error) of generate-image and generate-variation: error.message.
imageCatch(x, message) == Return(Respond(x, 500, [error |-> message]))

\* Mutant: the 400 is written without `return`; the handler goes on to read
\* the text of an undefined response and its catch writes a 500.
enhanceInvalidNoReturn(x) ==
    Return(Respond(Throw(Respond(x, 400, [error |-> InvalidRequestMessage]),
                         TypeErrorReading("text")),
                   500, [error |-> TypeErrorReading("text")]))

\* else { return res.status(400).json(...) } of enhance-and-analyze.
enhanceInvalid(x) == Return(Respond(x, 400, [error |-> InvalidRequestMessage]))

imageSuccess(x, status, finalPrompt, image) ==
    Return(Respond(x, 200,
        [status |-> status, finalPrompt |-> finalPrompt, image |-> image]))

---------------------------------------------------------------------------
(* Serverless script: handlers (index.js 88-212) *)

\* Lines 89-118: up to the awaited generateContent, or to the early return.
slsEnhanceStart(x, m) ==
    LET g == getGeminiModel(m) IN
    IF g.threw
    THEN [x |-> enhanceCatch(Throw(x, g.message), g.message), mod |-> g.mod]
    ELSE LET x1 == Obtain(x)
             b  == x.body
         IN  IF TypeIs(b, "enhance") /\ Truthy(b, "textPrompt")
             THEN [x |-> Call(x1, g.value,
                              << ServerlessEnhanceInstruction,
                                 <<"User brief: \"">> \o b.textPrompt \o <<"\"">> >>),
                   mod |-> g.mod]
             ELSE IF TypeIs(b, "analyze") /\ Truthy(b, "base64Image")
                       /\ Truthy(b, "mimeType")
             THEN [x |-> Call(x1, g.value,
                              << [text |-> ServerlessAnalyzeInstruction],
                                 fileToGenerativePart(b.base64Image, b.mimeType) >>),
                   mod |-> g.mod]
             ELSE [x |-> enhanceInvalid(x1), mod |-> g.mod]

\* Lines 120-128: response.text.trim(), or the catch.
slsEnhanceResume(x, o) ==
    IF o.threw
    THEN enhanceCatch(Throw(x, o.message), o.message)
    ELSE IF "text" \in DOMAIN o.result
    THEN Return(Respond(x, 200, [result |-> trim(o.result.text)]))
    ELSE enhanceCatch(Throw(x, TypeErrorReading("trim")), TypeErrorReading("trim"))

slsImageRequest(prompt) ==
    [ contents |-> << [parts |-> << [text |-> prompt] >>] >>,
      config   |-> [responseModalities |-> <<"IMAGE">>] ]

\* Mutant: the model is obtained before approvedPrompt is validated.
slsImageStartModelFirst(x, m) ==
    LET g == getT2IModel(m) IN
    IF g.threw
    THEN [x |-> imageCatch(Throw(x, g.message), g.message), mod |-> g.mod]
    ELSE IF ~Truthy(x.body, "approvedPrompt")
    THEN [x |-> Return(Respond(Obtain(x), 400, [error |-> ApprovedPromptRequired])),
          mod |-> g.mod]
    ELSE [x |-> Call(Obtain(x), g.value, slsImageRequest(x.body.approvedPrompt)),
          mod |-> g.mod]

\* Lines 133-148.
slsImageStart(x, m) ==
    IF ~Truthy(x.body, "approvedPrompt")
    THEN [x |-> Return(Respond(x, 400, [error |-> ApprovedPromptRequired])), mod |-> m]
    ELSE LET g == getT2IModel(m) IN
         IF g.threw
         THEN [x |-> imageCatch(Throw(x, g.message), g.message), mod |-> g.mod]
         ELSE [x |-> Call(Obtain(x), g.value, slsImageRequest(x.body.approvedPrompt)),
               mod |-> g.mod]

\* response.candidates?.[0]?.content?.parts, undefined read as no parts.
slsParts(result) ==
    IF /\ "candidates" \in DOMAIN result
       /\ result.candidates # <<>>
       /\ "content" \in DOMAIN result.candidates[1]
       /\ "parts" \in DOMAIN result.candidates[1].content
    THEN result.candidates[1].content.parts
    ELSE <<>>

\* p => p.inlineData?.mimeType.startsWith('image/')
slsIsImagePart(p) ==
    "inlineData" \in DOMAIN p /\ startsWith(p.inlineData.mimeType, <<"image/">>)

\* Lines 151-157: find the first image part; [ok, image] or [ok, message].
slsImageOf(result) ==
    LET parts == slsParts(result)
        hits  == {i \in DOMAIN parts : slsIsImagePart(parts[i])}
    IN  IF hits = {}
        THEN [ok |-> FALSE, message |-> NoImageData]
        ELSE LET first == CHOOSE i \in hits : \A j \in hits : i <= j
             IN  IF parts[first].inlineData.data = <<>>
                 THEN [ok |-> FALSE, message |-> NoImageData]
                 ELSE [ok |-> TRUE, image |-> parts[first].inlineData.data]

\* Lines 150-168.
slsImageResume(x, o) ==
    IF o.threw
    THEN imageCatch(Throw(x, o.message), o.message)
    ELSE LET r == slsImageOf(o.result) IN
         IF r.ok
         THEN imageSuccess(x, "Image generated successfully",
                           x.body.approvedPrompt, r.image)
         ELSE imageCatch(Throw(x, r.message), r.message)

slsVariationPrompt(imageAnalysis) == ServerlessVariationTemplate \o imageAnalysis

\* Lines 174-191.
slsVariationStart(x, m) ==
    IF ~Truthy(x.body, "imageAnalysis")
    THEN [x |-> Return(Respond(x, 400, [error |-> ImageAnalysisRequired])), mod |-> m]
    ELSE LET g == getT2IModel(m) IN
         IF g.threw
         THEN [x |-> imageCatch(Throw(x, g.message), g.message), mod |-> g.mod]
         ELSE LET variationPrompt == slsVariationPrompt(x.body.imageAnalysis)
              IN  [x |-> Call(Keep(Obtain(x), [variationPrompt |-> variationPrompt]),
                              g.value, slsImageRequest(variationPrompt)),
                   mod |-> g.mod]

\* Lines 193-211.
slsVariationResume(x, o) ==
    IF o.threw
    THEN imageCatch(Throw(x, o.message), o.message)
    ELSE LET r == slsImageOf(o.result) IN
         IF r.ok
         THEN imageSuccess(x, "Variation generated successfully",
                           x.local.variationPrompt, r.image)
         ELSE imageCatch(Throw(x, r.message), r.message)


---------------------------------------------------------------------------
(* Vercel script: handlers (index.js 295-421) *)

vercelEnhanceInstruction(textPrompt) ==
    <<"Imagine an image of a promotional poster for a professional \"">>
      \o textPrompt
      \o <<"\".", " ", "\n", "Describe the visual scene in vivid, cinematic detail, suitable for an image generator.", " ", "\n", "The description MUST NOT include any text overlays, contact information, dates, or prices.", " ", "\n", "The output must be ONLY the descriptive scene.">>

\* Lines 296-328: geminiModel is the constant built when the script loads.
vercelEnhanceStart(x, m) ==
    LET b == x.body IN
    IF TypeIs(b, "enhance") /\ Truthy(b, "textPrompt")
    THEN [x |-> Call(x, m.geminiModelInstance, vercelEnhanceInstruction(b.textPrompt)),
          mod |-> m]
    ELSE IF TypeIs(b, "analyze") /\ Truthy(b, "base64Image") /\ Truthy(b, "mimeType")
    THEN [x |-> Call(x, m.geminiModelInstance,
                     << [text |-> VercelAnalyzeInstruction],
                        [inlineData |-> [data |-> b.base64Image,
                                         mimeType |-> b.mimeType]] >>),
          mod |-> m]
    ELSE [x |-> enhanceInvalid(x), mod |-> m]

\* The inner catch of lines 333-335, then the outer catch.
vercelNoText(x, message) ==
    enhanceCatch(Throw(Throw(x, message), ModelDidNotReturnText), ModelDidNotReturnText)

\* Lines 330-340: response.response.text().trim() inside the inner try.
vercelEnhanceResume(x, o) ==
    IF o.threw
    THEN enhanceCatch(Throw(x, o.message), o.message)
    ELSE IF "response" \notin DOMAIN o.result
    THEN vercelNoText(x, TypeErrorReading("text"))
    ELSE IF "text" \notin DOMAIN o.result.response
    THEN vercelNoText(x, "response.response.text is not a function")
    ELSE IF "throws" \in DOMAIN o.result.response.text
    THEN vercelNoText(x, o.result.response.text.throws)
    ELSE Return(Respond(x, 200, [result |-> trim(o.result.response.text.returns)]))

\* Lines 344-352: up to `await genAI.getGenerativeModel(...)`.
vercelImageStart(x, m) ==
    IF ~Truthy(x.body, "approvedPrompt")
    THEN [x |-> Return(Respond(x, 400, [error |-> ApprovedPromptRequired])), mod |-> m]
    ELSE [x |-> [Keep(Obtain(x), [model |-> T2I_MODEL]) EXCEPT !.pc = "awaitGetModel"],
          mod |-> m]

\* Line 355.
vercelImageCall(x) == Call(x, x.local.model, x.body.approvedPrompt)

\* for (const part of ...parts) if (part.inlineData) imageBase64 = part.inlineData.data
\* (imageBase64 starts null; null and "" are both read as <<>>, both falsy).
RECURSIVE vercelScan(_, _)
vercelScan(parts, imageBase64) ==
    IF parts = <<>>
    THEN imageBase64
    ELSE vercelScan(Tail(parts),
                    IF "inlineData" \in DOMAIN Head(parts)
                    THEN Head(parts).inlineData.data
                    ELSE imageBase64)

\* Lines 357-368 and 400-409: [ok, image] or [ok, message].
vercelImageOf(result, noImage) ==
    IF "response" \notin DOMAIN result
    THEN [ok |-> FALSE, message |-> TypeErrorReading("candidates")]
    ELSE IF "candidates" \notin DOMAIN result.response
    THEN [ok |-> FALSE, message |-> TypeErrorReading("0")]
    ELSE IF result.response.candidates = <<>>
    THEN [ok |-> FALSE, message |-> TypeErrorReading("content")]
    ELSE IF "content" \notin DOMAIN result.response.candidates[1]
    THEN [ok |-> FALSE, message |-> TypeErrorReading("parts")]
    ELSE LET imageBase64 ==
                 vercelScan(result.response.candidates[1].content.parts, <<>>)
         IN  IF imageBase64 = <<>>
             THEN [ok |-> FALSE, message |-> noImage]
             ELSE [ok |-> TRUE, image |-> imageBase64]

\* Lines 357-379.
vercelImageResume(x, o) ==
    IF o.threw
    THEN imageCatch(Throw(x, o.message), o.message)
    ELSE LET r == vercelImageOf(o.result, NoImageReturned) IN
         IF r.ok
         THEN imageSuccess(x, "Image generated successfully",
                           x.body.approvedPrompt, r.image)
         ELSE imageCatch(Throw(x, r.message), r.message)

\* Mutant: the analysis is trimmed before it is appended.
vercelVariationPromptTrimmed(imageAnalysis) ==
    VercelVariationTemplate \o trim(imageAnalysis)

vercelVariationPrompt(imageAnalysis) == VercelVariationTemplate \o imageAnalysis

\* Lines 385-396: up to `await genAI.getGenerativeModel(...)`.
vercelVariationStart(x, m) ==
    IF ~Truthy(x.body, "imageAnalysis")
    THEN [x |-> Return(Respond(x, 400, [error |-> ImageAnalysisRequired])), mod |-> m]
    ELSE [x |-> [Keep(Obtain(x),
                      [variationPrompt |-> vercelVariationPrompt(x.body.imageAnalysis),
                       model |-> T2I_MODEL])
                   EXCEPT !.pc = "awaitGetModel"],
          mod |-> m]

\* Line 398.
vercelVariationCall(x) == Call(x, x.local.model, x.local.variationPrompt)

\* Lines 400-420.
vercelVariationResume(x, o) ==
    IF o.threw
    THEN imageCatch(Throw(x, o.message), o.message)
    ELSE LET r == vercelImageOf(o.result, NoImageData) IN
         IF r.ok
         THEN imageSuccess(x, "Variation generated successfully",
                           x.local.variationPrompt, r.image)
         ELSE imageCatch(Throw(x, r.message), r.message)

---------------------------------------------------------------------------
(* The router: the routes either script registers on app *)

Methods == {"GET", "POST"}
Paths == {ENHANCE_PATH, IMAGE_PATH, VARIATION_PATH, HEALTH_PATH}

Routes ==
    { [method |-> "POST", path |-> ENHANCE_PATH],
      [method |-> "POST", path |-> IMAGE_PATH],
      [method |-> "POST", path |-> VARIATION_PATH] }

\* No route matches: Express answers 404 with its own page, not a JSON body.
notFound(x) ==
    Return(Respond(x, 404, [html |-> <<"Cannot ", x.method, " ", x.path>>]))

enhanceStart(x, m) ==
    IF variant = "serverless" THEN slsEnhanceStart(x, m) ELSE vercelEnhanceStart(x, m)
enhanceResume(x, o) ==
    IF variant = "serverless" THEN slsEnhanceResume(x, o) ELSE vercelEnhanceResume(x, o)
imageStart(x, m) ==
    IF variant = "serverless" THEN slsImageStart(x, m) ELSE vercelImageStart(x, m)
imageResume(x, o) ==
    IF variant = "serverless" THEN slsImageResume(x, o) ELSE vercelImageResume(x, o)
variationStart(x, m) ==
    IF variant = "serverless" THEN slsVariationStart(x, m) ELSE vercelVariationStart(x, m)
variationResume(x, o) ==
    IF variant = "serverless"
    THEN slsVariationResume(x, o)
    ELSE vercelVariationResume(x, o)

---------------------------------------------------------------------------
(* The state machine *)

\* The requests of Init and InitEnv are those of any client: no App is mounted.
NoClient == [app |-> "none"]

Init ==
    /\ variant \in {"serverless", "vercel"}
    /\ sdkShape \in {"flat", "wrapped"}
    /\ GEMINI_API_KEY \in BOOLEAN
    /\ genAIInstance = IF variant = "vercel" THEN GenAIClient ELSE Null
    /\ geminiModelInstance = IF variant = "vercel" THEN MULTIMODAL_MODEL ELSE Null
    /\ t2iModelInstance = Null
    /\ built = [genAI |-> 0, gemini |-> 0, t2i |-> 0]
    /\ inflight = [s \in Slots |-> Idle]
    /\ completed = <<>>
    /\ ui = NoClient
    /\ pending = EmptyBag

\* The handler ran from the request up to its first await or to its end.
\* A new invocation takes the lowest free slot.
Begin(s, r) ==
    /\ inflight[s] = Idle
    /\ \A t \in DOMAIN inflight : t < s => inflight[t] # Idle
    /\ genAIInstance' = r.mod.genAIInstance
    /\ geminiModelInstance' = r.mod.geminiModelInstance
    /\ t2iModelInstance' = r.mod.t2iModelInstance
    /\ built' = r.mod.built
    /\ IF r.x.pc = "done"
       THEN completed' = <<r.x>> /\ UNCHANGED inflight
       ELSE inflight' = [inflight EXCEPT ![s] = r.x] /\ UNCHANGED completed
    /\ UNCHANGED <<variant, sdkShape, GEMINI_API_KEY, clientVars>>

\* The handler ran on from an await to its next await or to its end.
Continue(s, x) ==
    /\ IF x.pc = "done"
       THEN completed' = <<x>> /\ inflight' = [inflight EXCEPT ![s] = Idle]
       ELSE inflight' = [inflight EXCEPT ![s] = x] /\ UNCHANGED completed
    /\ UNCHANGED <<variant, sdkShape, GEMINI_API_KEY, genAIInstance,
                   geminiModelInstance, t2iModelInstance, built, clientVars>>

PostEnhanceAndAnalyze(s) ==
    \E body \in EnhanceAnalyzeBodies :
        Begin(s, enhanceStart(NewExchange("POST", ENHANCE_PATH, body), Module))

PostGenerateImage(s) ==
    \E body \in GenerateImageBodies :
        Begin(s, imageStart(NewExchange("POST", IMAGE_PATH, body), Module))

PostGenerateVariation(s) ==
    \E body \in GenerateVariationBodies :
        Begin(s, variationStart(NewExchange("POST", VARIATION_PATH, body), Module))

Unrouted(s) ==
    \E method \in Methods, path \in Paths :
        /\ [method |-> method, path |-> path] \notin Routes
        /\ Begin(s, [x |-> notFound(NewExchange(method, path, EmptyObject)),
                     mod |-> Module])

\* `await genAI.getGenerativeModel(...)` of the Vercel script resumes.
GetGenerativeModelResumes(s) ==
    /\ inflight[s].pc = "awaitGetModel"
    /\ Continue(s, IF inflight[s].path = IMAGE_PATH
                   THEN vercelImageCall(inflight[s])
                   ELSE vercelVariationCall(inflight[s]))

EnhanceAndAnalyzeSettles(s) ==
    /\ inflight[s].pc = "awaitGenerate"
    /\ inflight[s].path = ENHANCE_PATH
    /\ \E o \in Outcomes(TextResults(sdkShape)) :
           Continue(s, enhanceResume(Settle(inflight[s], o), o))

GenerateImageSettles(s) ==
    /\ inflight[s].pc = "awaitGenerate"
    /\ inflight[s].path = IMAGE_PATH
    /\ \E o \in Outcomes(ImageResults(sdkShape)) :
           Continue(s, imageResume(Settle(inflight[s], o), o))

GenerateVariationSettles(s) ==
    /\ inflight[s].pc = "awaitGenerate"
    /\ inflight[s].path = VARIATION_PATH
    /\ \E o \in Outcomes(ImageResults(sdkShape)) :
           Continue(s, variationResume(Settle(inflight[s], o), o))

Next ==
    \E s \in Slots :
        \/ PostEnhanceAndAnalyze(s)
        \/ PostGenerateImage(s)
        \/ PostGenerateVariation(s)
        \/ Unrouted(s)
        \/ GetGenerativeModelResumes(s)
        \/ EnhanceAndAnalyzeSettles(s)
        \/ GenerateImageSettles(s)
        \/ GenerateVariationSettles(s)

Spec == Init /\ [][Next]_vars

---------------------------------------------------------------------------
(* The serverless script under concurrent requests and a changing          *)
(* environment.  What the accessors do depends on the module state and on  *)
(* process.env at the moment of the call only, so the requests are one per *)
(* path of a handler to an accessor and every model call rejects.          *)

ConcurrentSlots == 1..MaxConcurrent

EnvRequests ==
    { [path |-> ENHANCE_PATH, body |-> [type |-> "enhance", textPrompt |-> <<"a castle">>]],
      [path |-> ENHANCE_PATH, body |-> [type |-> "analyze"]],
      [path |-> IMAGE_PATH, body |-> [approvedPrompt |-> <<"A castle at dusk.">>]],
      [path |-> IMAGE_PATH, body |-> EmptyObject],
      [path |-> VARIATION_PATH, body |-> [imageAnalysis |-> <<"A castle at dusk.">>]] }

InitEnv ==
    /\ variant = "serverless"
    /\ sdkShape \in {"flat", "wrapped"}
    /\ GEMINI_API_KEY \in BOOLEAN
    /\ genAIInstance = Null
    /\ geminiModelInstance = Null
    /\ t2iModelInstance = Null
    /\ built = [genAI |-> 0, gemini |-> 0, t2i |-> 0]
    /\ inflight = [s \in ConcurrentSlots |-> Idle]
    /\ completed = <<>>
    /\ ui = NoClient
    /\ pending = EmptyBag

\* process.env.GEMINI_API_KEY is set or removed between two handler steps;
\* getGenAI reads it on every call (line 32).
SetEnv ==
    /\ GEMINI_API_KEY' = ~GEMINI_API_KEY
    /\ UNCHANGED <<variant, sdkShape, genAIInstance, geminiModelInstance,
                   t2iModelInstance, built, inflight, completed, clientVars>>

EnvPost(s) ==
    \E r \in EnvRequests :
        LET x == NewExchange("POST", r.path, r.body)
        IN  Begin(s, IF r.path = ENHANCE_PATH THEN enhanceStart(x, Module)
                     ELSE IF r.path = IMAGE_PATH THEN imageStart(x, Module)
                     ELSE variationStart(x, Module))

EnvSettles(s) ==
    /\ inflight[s].pc = "awaitGenerate"
    /\ \E o \in Thrown :
           LET x == Settle(inflight[s], o)
           IN  Continue(s, IF x.path = ENHANCE_PATH THEN enhanceResume(x, o)
                           ELSE IF x.path = IMAGE_PATH THEN imageResume(x, o)
                           ELSE variationResume(x, o))

NextEnv ==
    \/ SetEnv
    \/ \E s \in ConcurrentSlots : EnvPost(s) \/ EnvSettles(s)

SpecEnv == InitEnv /\ [][NextEnv]_vars


---------------------------------------------------------------------------
(* App.jsx (src/unnamed/part_000): the browser client                      *)
(*                                                                         *)
(* part_000 holds two versions of App: the one without an approval step    *)
(* (lines 10-216, "basic") and the one with it (lines 227-435,             *)
(* "approval").  ui.app says which one is mounted.  A handler runs without *)
(* interruption up to an await; what it read from the state before the     *)
(* await is the value of the render in which the click happened.  The      *)
(* backend is seen through what axios.post resolves to or rejects with.    *)
(* The status line is a sequence of the pieces it is concatenated from.    *)

File1 == [name |-> "castle.png", type |-> PNG, bytes |-> <<"QUJD">>]
File2 == [name |-> "tower.png", type |-> PNG, bytes |-> <<"REVG">>]
Files == {File1, File2}
\* uploadedImageFile = null: no file chosen.
NoFile == [null |-> TRUE]

TypedPrompts == {<<>>, <<"a castle">>}
EnhancedPrompts == {<<"A castle at dusk.">>, <<"A castle at dawn.">>}
EditedPrompts == {<<>>, <<"A castle at night.">>}

\* What the backend answers to an analyze request: a text about that image.
AnalysisOf(base64Image) == <<"Analysis of ">> \o base64Image

\* useState initial values (lines 11-21, 228-238); isPromptApproved exists
\* in the approval version only and stays false in the other.
InitialState(app) ==
    [ app               |-> app,
      textPrompt        |-> <<>>,
      enhancedPrompt    |-> <<>>,
      approvedPrompt    |-> <<>>,
      isPromptApproved  |-> FALSE,
      generatedImage    |-> <<>>,
      status            |-> <<"Ready">>,
      uploadedImageFile |-> NoFile,
      imageAnalysis     |-> <<>>,
      variationImage    |-> <<>>,
      loading           |-> FALSE ]

\* The literals passed to setStatus, per version of App.
StatusText ==
    [ basic |->
        [ enhancing      |-> "Enhancing prompt via backend...",
          enhanced       |-> "Prompt Enhanced. Review and Approve/Generate.",
          enhanceError   |-> "Error during prompt enhancement: ",
          generating     |-> "Sending request to backend for image generation...",
          imageError     |-> "Error: T2I failed. ",
          imageErrorEnd  |-> ". Check console and ensure backend is running.",
          uploaded       |-> "Image uploaded, ready for analysis.",
          noImage        |-> "No image selected.",
          analyzing      |-> "Analyzing image via backend...",
          analyzed       |-> "Analysis Complete. Ready to Generate Variation.",
          analysisError  |-> "Error during image analysis: ",
          varying        |-> "Sending request to backend for variation generation...",
          variationError |-> "Error: Variation T2I failed. ",
          variationErrorEnd |-> ". Check backend logs." ],
      approval |->
        [ enhancing      |-> "Enhancing prompt...",
          enhanced       |-> "Prompt enhanced. Review & approve.",
          enhanceError   |-> "Error: ",
          generating     |-> "Generating image...",
          imageError     |-> "Error generating image: ",
          imageErrorEnd  |-> "",
          uploaded       |-> "Image uploaded",
          noImage        |-> "No image selected",
          analyzing      |-> "Analyzing image...",
          analyzed       |-> "Analysis complete. Ready for variation.",
          analysisError  |-> "Error analyzing image: ",
          varying        |-> "Generating variation...",
          variationError |-> "Error generating variation: ",
          variationErrorEnd |-> "" ] ]

ApprovedStatus == "Prompt approved. Ready to generate image."

\* "prefix" + err.message + "suffix"
ErrorStatus(prefix, message, suffix) ==
    IF suffix = "" THEN <<prefix, message>> ELSE <<prefix, message, suffix>>

\* `Image Generation Complete! Status: ${data.status}` (basic), or the
\* literal of the approval version.
ImageDoneStatus(app, data) ==
    IF app = "basic"
    THEN <<"Image Generation Complete! Status: ", data.status>>
    ELSE <<"Image generation complete!">>

VariationDoneStatus(app, data) ==
    IF app = "basic"
    THEN <<"Variation Generation Complete! Status: ", data.status>>
    ELSE <<"Variation generation complete!">>

\* `data:image/png;base64,${data.image}`
fullDataUri(data) == <<"data:image/png;base64,">> \o data.image

\* FileReader.readAsDataURL
readAsDataURL(file) == <<"data:">> \o file.type \o <<";base64", ",">> \o file.bytes

\* String.prototype.split
RECURSIVE split(_, _)
split(str, separator) ==
    IF \E i \in DOMAIN str : str[i] = separator
    THEN LET i == CHOOSE j \in DOMAIN str :
                      /\ str[j] = separator
                      /\ \A k \in 1..(j - 1) : str[k] # separator
         IN  <<SubSeq(str, 1, i - 1)>> \o split(SubSeq(str, i + 1, Len(str)), separator)
    ELSE <<str>>

\* resolve(reader.result.split(",")[1])
toBase64(file) == split(readAsDataURL(file), ",")[2]

\* What axios.post settles with: the response data, or an AxiosError with
\* or without a response.
AxiosRejections ==
    { [resolved |-> FALSE, message |-> "Request failed with status code 500",
       response |-> <<[data |-> [error |-> FallbackMessage]]>>],
      [resolved |-> FALSE, message |-> "Request failed with status code 500",
       response |-> <<[data |-> [error |-> ""]]>>],
      [resolved |-> FALSE, message |-> "Network Error", response |-> <<>>] }

\* The backend answers 2xx to a request that passes its validation only
\* (index.js 95-111, 135-137, 176-178).
Accepted(request) ==
    LET b == request.payload
    IN  IF request.endpoint = "enhance-and-analyze"
        THEN \/ TypeIs(b, "enhance") /\ Truthy(b, "textPrompt")
             \/ TypeIs(b, "analyze") /\ Truthy(b, "base64Image") /\ Truthy(b, "mimeType")
        ELSE IF request.endpoint = "generate-image"
        THEN Truthy(b, "approvedPrompt")
        ELSE Truthy(b, "imageAnalysis")

AxiosResolutions(request) ==
    IF ~Accepted(request)
    THEN {}
    ELSE {[resolved |-> TRUE, data |-> d] : d \in
        IF request.endpoint = "enhance-and-analyze"
        THEN IF request.payload.type = "enhance"
             THEN {[result |-> t] : t \in EnhancedPrompts}
             ELSE {[result |-> AnalysisOf(request.payload.base64Image)]}
        ELSE IF request.endpoint = "generate-image"
        THEN {[status |-> "Image generated successfully",
               finalPrompt |-> request.payload.approvedPrompt, image |-> <<"QUJD">>]}
        ELSE {[status |-> "Variation generated successfully",
               finalPrompt |-> request.payload.imageAnalysis, image |-> <<"REVG">>]}}

AxiosOutcomes(request) == AxiosResolutions(request) \cup AxiosRejections

\* fetchAIResponse after its await: the data, or an Error whose message is
\* error.response?.data?.error || error.message.
fetchAIResponse(o) ==
    IF o.resolved
    THEN [threw |-> FALSE, data |-> o.data]
    ELSE [threw |-> TRUE,
          message |-> IF /\ o.response # <<>>
                         /\ "error" \in DOMAIN o.response[1].data
                         /\ o.response[1].data.error # ""
                      THEN o.response[1].data.error
                      ELSE o.message]

\* A handler suspended in `await fetchAIResponse(endpoint, payload)`.
Fetching(handler, endpoint, payload) ==
    [pc |-> "fetch", handler |-> handler, endpoint |-> endpoint, payload |-> payload]

\* Each handler is two operators: ...Click runs it from the click to its
\* first await and yields the new state and the suspended handler;
\* ...Resume runs it from the settled await to its end.

\* Lines 44-50 (basic), 262-272 (approval).
handleEnhancePromptClick(u) ==
    LET T == StatusText[u.app]
        u1 == [u EXCEPT !.status = <<T.enhancing>>,
                        !.enhancedPrompt = <<>>,
                        !.loading = TRUE]
    IN  [ ui |-> IF u.app = "approval"
                 THEN [u1 EXCEPT !.approvedPrompt = <<>>, !.isPromptApproved = FALSE]
                 ELSE u1,
          p  |-> Fetching("handleEnhancePrompt", "enhance-and-analyze",
                          [type |-> "enhance", textPrompt |-> u.textPrompt]) ]

\* Mutant: the catch leaves the spinner on.
handleEnhancePromptResumeNoFinally(u, r) ==
    LET T == StatusText[u.app]
    IN  IF r.threw
        THEN [u EXCEPT !.status = ErrorStatus(T.enhanceError, r.message, "")]
        ELSE [u EXCEPT !.enhancedPrompt = r.data.result,
                       !.approvedPrompt = r.data.result,
                       !.status = <<T.enhanced>>,
                       !.loading = FALSE]

\* Lines 51-60 (basic), 273-281 (approval).
handleEnhancePromptResume(u, r) ==
    LET T == StatusText[u.app]
    IN  IF r.threw
        THEN [u EXCEPT !.status = ErrorStatus(T.enhanceError, r.message, ""),
                       !.loading = FALSE]
        ELSE [u EXCEPT !.enhancedPrompt = r.data.result,
                       !.approvedPrompt = r.data.result,
                       !.status = <<T.enhanced>>,
                       !.loading = FALSE]

\* The guard of handleImageGeneration (lines 65, 285), which is also the
\* negation of the button's `disabled` (lines 181, 397).
CanGenerateImage(u) ==
    /\ u.approvedPrompt # <<>>
    /\ u.app = "approval" => u.isPromptApproved

\* Lines 69-75 (basic), 289-293 (approval).
handleImageGenerationClick(u) ==
    [ ui |-> [u EXCEPT !.status = <<StatusText[u.app].generating>>,
                       !.generatedImage = <<>>,
                       !.loading = TRUE],
      p  |-> Fetching("handleImageGeneration", "generate-image",
                      [approvedPrompt |-> u.approvedPrompt]) ]

\* Lines 77-85 (basic), 294-302 (approval).
handleImageGenerationResume(u, r) ==
    LET T == StatusText[u.app]
    IN  IF r.threw
        THEN [u EXCEPT !.status = ErrorStatus(T.imageError, r.message, T.imageErrorEnd),
                       !.loading = FALSE]
        ELSE [u EXCEPT !.generatedImage = fullDataUri(r.data),
                       !.status = ImageDoneStatus(u.app, r.data),
                       !.loading = FALSE]

\* Lines 89-103 (basic), 305-312 (approval); file is NoFile when the dialog
\* is left without a file.
handleImageFileChange(u, file) ==
    [u EXCEPT !.uploadedImageFile = file,
              !.imageAnalysis = <<>>,
              !.variationImage = <<>>,
              !.generatedImage = <<>>,
              !.status = IF file # NoFile
                         THEN <<StatusText[u.app].uploaded>>
                         ELSE <<StatusText[u.app].noImage>>]

\* Lines 111-116 (basic), 316-320 (approval): up to `await toBase64(...)`;
\* uploadedImageFile is the constant of the render of the click.
handleImageAnalysisClick(u) ==
    [ ui |-> [u EXCEPT !.status = <<StatusText[u.app].analyzing>>,
                       !.imageAnalysis = <<>>,
                       !.loading = TRUE],
      p  |-> [pc |-> "toBase64", handler |-> "handleImageAnalysis",
              uploadedImageFile |-> u.uploadedImageFile] ]

\* Lines 117-122 (basic), 321-325 (approval): the file was read.
handleImageAnalysisFetch(p, base64Image) ==
    Fetching("handleImageAnalysis", "enhance-and-analyze",
             [type |-> "analyze", base64Image |-> base64Image,
              mimeType |-> p.uploadedImageFile.type])

\* Lines 123-130 (basic), 326-333 (approval); also the catch after a
\* rejected toBase64.
handleImageAnalysisResume(u, r) ==
    LET T == StatusText[u.app]
    IN  IF r.threw
        THEN [u EXCEPT !.status = ErrorStatus(T.analysisError, r.message, ""),
                       !.loading = FALSE]
        ELSE [u EXCEPT !.imageAnalysis = r.data.result,
                       !.status = <<T.analyzed>>,
                       !.loading = FALSE]

\* Lines 140-146 (basic), 338-342 (approval).
handleVariationGenerationClick(u) ==
    [ ui |-> [u EXCEPT !.status = <<StatusText[u.app].varying>>,
                       !.variationImage = <<>>,
                       !.loading = TRUE],
      p  |-> Fetching("handleVariationGeneration", "generate-variation",
                      [imageAnalysis |-> u.imageAnalysis]) ]

\* Lines 147-155 (basic), 343-351 (approval).
handleVariationGenerationResume(u, r) ==
    LET T == StatusText[u.app]
    IN  IF r.threw
        THEN [u EXCEPT !.status =
                  ErrorStatus(T.variationError, r.message, T.variationErrorEnd),
                       !.loading = FALSE]
        ELSE [u EXCEPT !.variationImage = fullDataUri(r.data),
                       !.status = VariationDoneStatus(u.app, r.data),
                       !.loading = FALSE]

\* reader.onerror rejects with the event, which has no message:
\* "..." + err.message reads "...undefined".
ReaderError == [threw |-> TRUE, message |-> "undefined"]

---------------------------------------------------------------------------
(* The client's state machine *)

\* The backend behind the client is a deployment of the Vercel script at
\* rest; the client sees it through AxiosOutcomes only.
InitUI ==
    /\ variant = "vercel"
    /\ sdkShape = "wrapped"
    /\ GEMINI_API_KEY = TRUE
    /\ genAIInstance = GenAIClient
    /\ geminiModelInstance = MULTIMODAL_MODEL
    /\ t2iModelInstance = Null
    /\ built = [genAI |-> 0, gemini |-> 0, t2i |-> 0]
    /\ inflight = [s \in Slots |-> Idle]
    /\ completed = <<>>
    /\ \E app \in {"basic", "approval"} : ui = InitialState(app)
    /\ pending = EmptyBag

\* A click starts a handler, which runs to its first await and stays
\* suspended there; at most MaxPending handlers are suspended at once.
Suspend(r) ==
    /\ BagCardinality(pending) < MaxPending
    /\ ui' = r.ui
    /\ pending' = pending (+) SetToBag({r.p})
    /\ UNCHANGED backendVars

\* The suspended handler p ran from its await to its end.
Finish(p, u) ==
    /\ ui' = u
    /\ pending' = pending (-) SetToBag({p})
    /\ UNCHANGED backendVars

\* A synchronous event handler ran.
Render(u) ==
    /\ ui' = u
    /\ UNCHANGED <<pending, backendVars>>

\* onChange of the text input (lines 174, 366).
TypePrompt ==
    \E v \in TypedPrompts \ {ui.textPrompt} :
        Render([ui EXCEPT !.textPrompt = v])

\* onChange of the textarea (lines 377-380), shown while enhancedPrompt is
\* not empty (line 371).
EditPrompt ==
    /\ ui.app = "approval"
    /\ ui.enhancedPrompt # <<>>
    /\ \E v \in EditedPrompts \ {ui.approvedPrompt} :
           Render([ui EXCEPT !.approvedPrompt = v, !.isPromptApproved = FALSE])

\* onClick of Approve Prompt (lines 385-388), shown with the textarea.
ApprovePrompt ==
    /\ ui.app = "approval"
    /\ ui.enhancedPrompt # <<>>
    /\ Render([ui EXCEPT !.isPromptApproved = TRUE, !.status = <<ApprovedStatus>>])

\* onChange of the file input (lines 197, 416).
SelectFile ==
    \E file \in (Files \cup {NoFile}) \ {ui.uploadedImageFile} :
        Render(handleImageFileChange(ui, file))

\* The buttons; none is disabled while loading (lines 177-206, 369-425).
ClickEnhance == Suspend(handleEnhancePromptClick(ui))

ClickGenerateImage ==
    /\ CanGenerateImage(ui)
    /\ Suspend(handleImageGenerationClick(ui))

ClickAnalyze ==
    /\ ui.uploadedImageFile # NoFile
    /\ Suspend(handleImageAnalysisClick(ui))

ClickGenerateVariation ==
    /\ ui.imageAnalysis # <<>>
    /\ Suspend(handleVariationGenerationClick(ui))

\* `await toBase64(uploadedImageFile)` settles.
FileIsRead(p) ==
    /\ p.pc = "toBase64"
    /\ \/ /\ pending' = (pending (-) SetToBag({p})) (+) SetToBag(
                  {handleImageAnalysisFetch(p, toBase64(p.uploadedImageFile))})
          /\ UNCHANGED <<ui, backendVars>>
       \/ Finish(p, handleImageAnalysisResume(ui, ReaderError))

\* `await fetchAIResponse(...)` settles.
Responds(p, handler) == p.pc = "fetch" /\ p.handler = handler

EnhanceResponds(p) ==
    /\ Responds(p, "handleEnhancePrompt")
    /\ \E o \in AxiosOutcomes(p) :
           Finish(p, handleEnhancePromptResume(ui, fetchAIResponse(o)))

ImageResponds(p) ==
    /\ Responds(p, "handleImageGeneration")
    /\ \E o \in AxiosOutcomes(p) :
           Finish(p, handleImageGenerationResume(ui, fetchAIResponse(o)))

AnalysisResponds(p) ==
    /\ Responds(p, "handleImageAnalysis")
    /\ \E o \in AxiosOutcomes(p) :
           Finish(p, handleImageAnalysisResume(ui, fetchAIResponse(o)))

VariationResponds(p) ==
    /\ Responds(p, "handleVariationGeneration")
    /\ \E o \in AxiosOutcomes(p) :
           Finish(p, handleVariationGenerationResume(ui, fetchAIResponse(o)))

NextUI ==
    \/ TypePrompt
    \/ EditPrompt
    \/ ApprovePrompt
    \/ SelectFile
    \/ ClickEnhance
    \/ ClickGenerateImage
    \/ ClickAnalyze
    \/ ClickGenerateVariation
    \/ \E p \in BagToSet(pending) :
           \/ FileIsRead(p)
           \/ EnhanceResponds(p)
           \/ ImageResponds(p)
           \/ AnalysisResponds(p)
           \/ VariationResponds(p)

SpecUI == InitUI /\ [][NextUI]_vars

---------------------------------------------------------------------------
(* Properties *)

Done == {completed[i] : i \in DOMAIN completed}
Suspended == {inflight[s] : s \in {t \in DOMAIN inflight : inflight[t] # Idle}}
Exchanges == Done \cup Suspended

IsPost(x, path) == x.method = "POST" /\ x.path = path

Status(x) == x.responses[1].status
Body(x) == x.responses[1].body
OneResponse(x) == Len(x.responses) = 1
Answered(x, status) == OneResponse(x) /\ Status(x) = status
ErrorIs(x, message) == "error" \in DOMAIN Body(x) /\ Body(x).error = message

ValidEnhance(b) == TypeIs(b, "enhance") /\ Truthy(b, "textPrompt")
ValidAnalyze(b) ==
    TypeIs(b, "analyze") /\ Truthy(b, "base64Image") /\ Truthy(b, "mimeType")

\* The awaited call resolved (did not throw).
Resolves(x) == x.outcome # <<>> /\ ~x.outcome[1].threw
Rejects(x) == x.outcome # <<>> /\ x.outcome[1].threw
Result(x) == x.outcome[1].result

\* The text the model's answer carries, whatever its shape: <<>> or <<t>>.
TextOf(result) ==
    IF "text" \in DOMAIN result
    THEN <<result.text>>
    ELSE IF "response" \in DOMAIN result /\ "text" \in DOMAIN result.response
              /\ "returns" \in DOMAIN result.response.text
    THEN <<result.response.text.returns>>
    ELSE <<>>

\* The content parts the model's answer carries, whatever its shape.
PartsOf(result) ==
    LET r == IF "response" \in DOMAIN result THEN result.response ELSE result
    IN  IF "candidates" \in DOMAIN r /\ r.candidates # <<>>
           /\ "content" \in DOMAIN r.candidates[1]
        THEN r.candidates[1].content.parts
        ELSE <<>>

InlineAt(parts) == {i \in DOMAIN parts : "inlineData" \in DOMAIN parts[i]}

\* The parts carrying non-empty inline data of an image type.
InlineImageAt(parts) ==
    {i \in InlineAt(parts) :
        /\ startsWith(parts[i].inlineData.mimeType, <<"image/">>)
        /\ parts[i].inlineData.data # <<>>}

\* The call resolves in the shape the deployed script reads.
ReadsResultShape ==
    \/ variant = "serverless" /\ sdkShape = "flat"
    \/ variant = "vercel" /\ sdkShape = "wrapped"

\* C1: an enhance request with a non-empty textPrompt whose text call
\* returns (non-blank) text is answered 200 with result = that text trimmed,
\* which is non-empty.
C1_EnhanceReturnsTrimmedText ==
    \A x \in Done :
        ( /\ IsPost(x, ENHANCE_PATH) /\ ValidEnhance(x.body)
          /\ Resolves(x) /\ TextOf(Result(x)) # <<>>
          /\ trim(TextOf(Result(x))[1]) # <<>> )
        => /\ Answered(x, 200)
           /\ "result" \in DOMAIN Body(x)
           /\ Body(x).result = trim(TextOf(Result(x))[1])
           /\ Body(x).result # <<>>

\* C2: an analyze request whose base64Image or mimeType is missing or empty
\* is answered 400 with an error message and makes no model call, in every
\* process state (API key set or not, handles cached or not).
C2_AnalyzeMissingFieldsIs400 ==
    \A x \in Done :
        ( /\ IsPost(x, ENHANCE_PATH) /\ TypeIs(x.body, "analyze")
          /\ (~Truthy(x.body, "base64Image") \/ ~Truthy(x.body, "mimeType")) )
        => /\ Answered(x, 400)
           /\ "error" \in DOMAIN Body(x)
           /\ x.calls = <<>>

\* C3: a generate-image request whose approvedPrompt is missing or empty is
\* answered 400 {error: "Approved prompt is required."}; no image model
\* handle is obtained and no call is made, API key set or not.
C3_EmptyApprovedPromptIs400 ==
    \A x \in Done :
        (IsPost(x, IMAGE_PATH) /\ ~Truthy(x.body, "approvedPrompt"))
        => /\ x.responses = << [status |-> 400,
                                body |-> [error |-> ApprovedPromptRequired]] >>
           /\ ~x.obtained
           /\ x.calls = <<>>
           /\ x.outcome = <<>>

C3_Witness ==
    \E x \in Done :
        /\ IsPost(x, IMAGE_PATH)
        /\ "approvedPrompt" \in DOMAIN x.body /\ x.body.approvedPrompt = <<>>
        /\ ~GEMINI_API_KEY
        /\ Answered(x, 400)

\* C4: when the image call resolves (in the shape the script reads) with
\* content parts that carry no inline data (also an empty parts list, or no
\* candidates), generate-image and generate-variation answer 500 with a
\* "no image returned" message.
C4_NoInlineDataIsNoImage500 ==
    \A x \in Done :
        ( /\ IsPost(x, IMAGE_PATH) \/ IsPost(x, VARIATION_PATH)
          /\ Resolves(x)
          /\ ReadsResultShape
          /\ InlineAt(PartsOf(Result(x))) = {} )
        => /\ Answered(x, 500)
           /\ ErrorIs(x, NoImageData) \/ ErrorIs(x, NoImageReturned)

\* C5: a successful generate-image answer carries as image the data of the
\* first content part (in returned order) with inline data, unchanged, and as
\* finalPrompt the request's approvedPrompt, also when several parts carry
\* inline data (stated for answers whose inline parts all carry image data).
C5_ImageIsFirstInlinePart ==
    \A x \in Done :
        ( /\ IsPost(x, IMAGE_PATH) /\ Answered(x, 200)
          /\ InlineAt(PartsOf(Result(x))) = InlineImageAt(PartsOf(Result(x))) )
        => LET parts == PartsOf(Result(x))
               first == CHOOSE i \in InlineAt(parts) :
                            \A j \in InlineAt(parts) : i <= j
           IN  /\ InlineAt(parts) # {}
               /\ Body(x).image = parts[first].inlineData.data
               /\ Body(x).finalPrompt = x.body.approvedPrompt

\* The prompt string a generateContent call of an image handler carries.
SentPrompt(call) ==
    IF variant = "serverless"
    THEN call.request.contents[1].parts[1].text
    ELSE call.request

VariationTemplate ==
    IF variant = "serverless"
    THEN ServerlessVariationTemplate
    ELSE VercelVariationTemplate

\* C6: a successful generate-variation answer carries as finalPrompt exactly
\* the prompt sent to the image model, which is the stylization template
\* followed by the request's imageAnalysis unchanged; a missing or empty
\* imageAnalysis is answered 400 without a model call.
C6_VariationFinalPromptIsSentPrompt ==
    \A x \in Done :
        IsPost(x, VARIATION_PATH)
        => /\ ~Truthy(x.body, "imageAnalysis")
                => /\ Answered(x, 400)
                   /\ "error" \in DOMAIN Body(x)
                   /\ x.calls = <<>>
           /\ (Truthy(x.body, "imageAnalysis") /\ Answered(x, 200))
                => /\ Len(x.calls) = 1
                   /\ x.calls[1].model = T2I_MODEL
                   /\ Body(x).finalPrompt = SentPrompt(x.calls[1])
                   /\ SentPrompt(x.calls[1]) = VariationTemplate \o x.body.imageAnalysis

C6_Witness ==
    \E x \in Done :
        /\ IsPost(x, VARIATION_PATH)
        /\ Answered(x, 200)
        /\ x.body.imageAnalysis = <<" ", "A castle at dusk.">>
        /\ Body(x).finalPrompt = SentPrompt(x.calls[1])

\* C7: whenever a valid analyze request has called the text model, the
\* call's image part carries exactly the request's base64Image as data and
\* exactly its mimeType.
C7_AnalyzeImagePartIsRequestImage ==
    \A x \in Exchanges :
        (IsPost(x, ENHANCE_PATH) /\ ValidAnalyze(x.body) /\ x.calls # <<>>)
        => /\ Len(x.calls) = 1
           /\ x.calls[1].model = MULTIMODAL_MODEL
           /\ Len(x.calls[1].request) = 2
           /\ x.calls[1].request[2] =
                  [inlineData |-> [data |-> x.body.base64Image,
                                   mimeType |-> x.body.mimeType]]

C7_Witness ==
    \E x \in Done :
        /\ IsPost(x, ENHANCE_PATH) /\ ValidAnalyze(x.body)
        /\ x.calls # <<>>
        /\ x.calls[1].request[2].inlineData.data = <<"QUJD">>
        /\ Answered(x, 200)

\* A valid enhance or analyze request whose call threw, or resolved without
\* text.
DownstreamFailure(x) ==
    /\ IsPost(x, ENHANCE_PATH)
    /\ ValidEnhance(x.body) \/ ValidAnalyze(x.body)
    /\ Rejects(x) \/ (Resolves(x) /\ TextOf(Result(x)) = <<>>)

OrFallback(message) == IF message = "" THEN FallbackMessage ELSE message

\* C8 as stated: a downstream failure of a valid enhance or analyze request
\* is answered 500 with error = the underlying (first raised) error's
\* message, or the fallback string when that message is empty (stated for
\* calls that settle in the shape the script reads).
C8_ErrorIsUnderlyingMessage ==
    \A x \in Done :
        (DownstreamFailure(x) /\ ReadsResultShape)
        => /\ Answered(x, 500)
           /\ x.thrown # <<>>
           /\ ErrorIs(x, OrFallback(x.thrown[1]))

\* C8 amended: a downstream failure of a valid enhance or analyze request is
\* answered 500 (never 200 or 400); error is the thrown error's message, or
\* the fallback string when it is empty, when the call throws; when the call
\* resolves without text it is the message of the error raised while reading
\* the text in the serverless script, and the fixed "Model did not return
\* text..." message, which replaces the underlying one, in the Vercel script.
C8_ErrorIsCaughtMessage ==
    \A x \in Done :
        DownstreamFailure(x)
        => /\ Answered(x, 500)
           /\ Rejects(x) => ErrorIs(x, OrFallback(x.outcome[1].message))
           /\ Resolves(x)
                => ErrorIs(x, IF variant = "vercel"
                              THEN ModelDidNotReturnText
                              ELSE TypeErrorReading("trim"))

C8_Witness ==
    \E x \in Done :
        /\ DownstreamFailure(x)
        /\ variant = "vercel"
        /\ Resolves(x)
        /\ x.thrown = <<BlockedMessage, ModelDidNotReturnText>>
        /\ Answered(x, 500)

\* C9: a request to one of the three POST endpoints has no response while
\* its handler is suspended and exactly one when the handler has ended
\* (never none, never two), whatever step failed, and a failure response
\* has a body with an error field.
C9_ExactlyOneResponse ==
    /\ \A x \in Suspended : x.responses = <<>>
    /\ \A x \in Done :
           x.method = "POST" /\ x.path \in {ENHANCE_PATH, IMAGE_PATH, VARIATION_PATH}
           => /\ OneResponse(x)
              /\ Status(x) \in {200, 400, 500}
              /\ Status(x) # 200 => "error" \in DOMAIN Body(x)

C9_Witness ==
    \E x \in Done :
        /\ IsPost(x, VARIATION_PATH)
        /\ Resolves(x)
        /\ Answered(x, 500)
        /\ x.thrown # <<>>

\* C10: GET /api/health-check is answered 200 with {keySet: b}, b being
\* whether the API key is set.
C10_HealthCheckReportsKeySet ==
    \A x \in Done :
        (x.method = "GET" /\ x.path = HEALTH_PATH)
        => /\ Answered(x, 200)
           /\ "keySet" \in DOMAIN Body(x)
           /\ Body(x).keySet = GEMINI_API_KEY

---------------------------------------------------------------------------
(* C11: lazy singletons *)

\* The accessor a returns the cached handle h and leaves the module alone.
ReturnsCached(a, h) == a = [threw |-> FALSE, value |-> h, mod |-> Module]

\* C11: in the serverless script getGenAI throws the configuration error
\* whenever GEMINI_API_KEY is absent when it is called, a cached client
\* notwithstanding, and returns the cached client otherwise; over every
\* sequence and interleaving of requests the client, the text model handle
\* and the image model handle are each constructed at most once, a handle
\* once cached is what every later accessor call returns, and every model
\* call goes to the cached handle.
C11_SingletonsBuiltOnce ==
    /\ ~GEMINI_API_KEY =>
           getGenAI(Module) = [threw |-> TRUE, message |-> KeyNotSetMessage, mod |-> Module]
    /\ GEMINI_API_KEY /\ genAIInstance # Null =>
           ReturnsCached(getGenAI(Module), genAIInstance)
    /\ GEMINI_API_KEY /\ genAIInstance = Null =>
           /\ ~getGenAI(Module).threw
           /\ getGenAI(Module).mod.built.genAI = 1
    /\ built.genAI = (IF genAIInstance = Null THEN 0 ELSE 1)
    /\ built.gemini = (IF geminiModelInstance = Null THEN 0 ELSE 1)
    /\ built.t2i = (IF t2iModelInstance = Null THEN 0 ELSE 1)
    /\ geminiModelInstance # Null =>
           ReturnsCached(getGeminiModel(Module), geminiModelInstance)
    /\ t2iModelInstance # Null =>
           ReturnsCached(getT2IModel(Module), t2iModelInstance)
    /\ \A x \in Exchanges : \A i \in DOMAIN x.calls :
           x.calls[i].model = (IF x.path = ENHANCE_PATH THEN geminiModelInstance
                               ELSE t2iModelInstance)

\* Two image requests are in flight on the one image model handle, and the
\* key has gone from the environment since the client was cached.
C11_Witness ==
    /\ ~GEMINI_API_KEY
    /\ genAIInstance # Null
    /\ built.t2i = 1
    /\ Cardinality({s \in DOMAIN inflight :
                       /\ inflight[s].pc = "awaitGenerate"
                       /\ inflight[s].path \in {IMAGE_PATH, VARIATION_PATH}}) >= 2

---------------------------------------------------------------------------
(* C12: one model call per request *)

Routed(x) == [method |-> x.method, path |-> x.path] \in Routes

PassesValidation(x) ==
    \/ IsPost(x, ENHANCE_PATH) /\ (ValidEnhance(x.body) \/ ValidAnalyze(x.body))
    \/ IsPost(x, IMAGE_PATH) /\ Truthy(x.body, "approvedPrompt")
    \/ IsPost(x, VARIATION_PATH) /\ Truthy(x.body, "imageAnalysis")

\* getGenAI threw before the handler came to its call.
NoHandle(x) == x.outcome = <<>> /\ x.thrown = <<KeyNotSetMessage>>

\* C12 as stated: a finished handler invocation has made exactly one model
\* call when its request passes validation and none when it fails it.
C12_OneCallIffValid ==
    \A x \in Done :
        Routed(x) => Len(x.calls) = (IF PassesValidation(x) THEN 1 ELSE 0)

\* C12 amended: no invocation ever makes a second model call, however the
\* first one settles; a finished invocation has made one call when its
\* request passes validation and no accessor threw, and none otherwise; an
\* accessor throws only in the serverless script with the key absent, and
\* the request is then answered 500 with the configuration error.
C12_AtMostOneCall ==
    /\ \A x \in Exchanges : Len(x.calls) <= 1
    /\ \A x \in Suspended :
           Len(x.calls) = (IF x.pc = "awaitGenerate" THEN 1 ELSE 0)
    /\ \A x \in Done :
           /\ Len(x.calls) = (IF PassesValidation(x) /\ ~NoHandle(x) THEN 1 ELSE 0)
           /\ Len(x.calls) = 1 => x.outcome # <<>>
           /\ NoHandle(x) =>
                  /\ variant = "serverless"
                  /\ ~GEMINI_API_KEY
                  /\ Answered(x, 500)
                  /\ ErrorIs(x, KeyNotSetMessage)

\* A valid request whose single call threw has ended without another call.
C12_Witness ==
    \E x \in Done :
        PassesValidation(x) /\ Rejects(x) /\ Len(x.calls) = 1 /\ Answered(x, 500)

---------------------------------------------------------------------------
(* The client: C13-C16 *)

Pending == BagToSet(pending)

\* This step is a click that suspended the handler p.
Starts(p) == pending' = pending (+) SetToBag({p})

\* This step is the end of the suspended handler p.
Ends(p) == p \in Pending /\ pending' = pending (-) SetToBag({p})

\* C13 (approval version): while isPromptApproved stays true approvedPrompt
\* does not change, whoever writes it (the user's edit, or the response of
\* an enhance request, overlapping ones included), and every generate-image
\* request is sent with isPromptApproved true and carries the approvedPrompt
\* of that moment: so the prompt sent is the text of the prompt box at the
\* most recent Approve click.
C13_SentPromptIsApprovedPrompt ==
    [][ ui.app = "approval" =>
          /\ ui.isPromptApproved /\ ui'.isPromptApproved =>
                 ui'.approvedPrompt = ui.approvedPrompt
          /\ \A p \in BagToSet(pending') :
                 Starts(p) /\ p.handler = "handleImageGeneration" =>
                     /\ ui.isPromptApproved
                     /\ p.payload.approvedPrompt = ui.approvedPrompt ]_vars

\* C14: loading is true in every state in which a handler's request is
\* still in flight, and false when none is.
C14_LoadingIffPending ==
    ui.app \in {"basic", "approval"} => (ui.loading <=> pending # EmptyBag)

\* C15: a non-empty imageAnalysis is the analysis of the file that is
\* selected now.
C15_AnalysisIsOfSelectedFile ==
    ui.app \in {"basic", "approval"} /\ ui.imageAnalysis # <<>> =>
        /\ ui.uploadedImageFile # NoFile
        /\ ui.imageAnalysis = AnalysisOf(ui.uploadedImageFile.bytes)

\* What the await of the suspended handler p can settle with.
Settlements(p) ==
    IF p.pc = "toBase64"
    THEN {ReaderError}
    ELSE {fetchAIResponse(o) : o \in AxiosOutcomes(p)}

\* The state variable a handler clears when it starts.
ResultField(u, handler) ==
    CASE handler = "handleEnhancePrompt"       -> u.enhancedPrompt
      [] handler = "handleImageGeneration"     -> u.generatedImage
      [] handler = "handleImageAnalysis"       -> u.imageAnalysis
      [] handler = "handleVariationGeneration" -> u.variationImage

\* The completion text of a handler, and its error text around a message.
CompletionText(app, handler, data) ==
    CASE handler = "handleEnhancePrompt"       -> <<StatusText[app].enhanced>>
      [] handler = "handleImageGeneration"     -> ImageDoneStatus(app, data)
      [] handler = "handleImageAnalysis"       -> <<StatusText[app].analyzed>>
      [] handler = "handleVariationGeneration" -> VariationDoneStatus(app, data)

ErrorText(app, handler, message) ==
    LET T == StatusText[app]
    IN  CASE handler = "handleEnhancePrompt" -> ErrorStatus(T.enhanceError, message, "")
          [] handler = "handleImageGeneration" ->
                 ErrorStatus(T.imageError, message, T.imageErrorEnd)
          [] handler = "handleImageAnalysis" -> ErrorStatus(T.analysisError, message, "")
          [] handler = "handleVariationGeneration" ->
                 ErrorStatus(T.variationError, message, T.variationErrorEnd)

\* The handler p ends in this step on the settlement r: loading is false
\* and status is p's completion text, or p's error text around r's message.
EndsOn(p, r) ==
    /\ ~ui'.loading
    /\ ui'.status = IF r.threw
                    THEN ErrorText(ui.app, p.handler, r.message)
                    ELSE CompletionText(ui.app, p.handler, r.data)

\* C16 as stated: when a handler ends, loading is false and status is its
\* completion text or its error text around the error message, and after a
\* failure the field the handler cleared at its start is empty.
C16_FailureLeavesFieldEmpty ==
    [][ \A p \in Pending :
          Ends(p) =>
              \E r \in Settlements(p) :
                  /\ EndsOn(p, r)
                  /\ r.threw => ResultField(ui', p.handler) = <<>> ]_vars

\* C16 amended: when a handler ends, loading is false and status is its
\* completion text or its error text around the error message, and a
\* failing handler leaves its result field as it finds it (empty, unless
\* an overlapping run of the same handler has filled it meanwhile).
C16_FailureLeavesFieldAlone ==
    [][ \A p \in Pending :
          Ends(p) =>
              \E r \in Settlements(p) :
                  /\ EndsOn(p, r)
                  /\ r.threw =>
                         ResultField(ui', p.handler) = ResultField(ui, p.handler) ]_vars

\* An enhance request has failed with the backend's message: nothing is
\* pending, the spinner is off, the status carries the message and the
\* enhanced prompt is empty.
C16_Witness ==
    /\ ui.app \in {"basic", "approval"}
    /\ pending = EmptyBag
    /\ ~ui.loading
    /\ ui.status = ErrorText(ui.app, "handleEnhancePrompt", FallbackMessage)
    /\ ui.enhancedPrompt = <<>>

============================================================================
